---- MODULE Spec2Model ----
(***************************************************************************)
(* A model of the PDF -> HTML conversion scripts of this repository:       *)
(*   fritz_test2.py (class PDFToHTMLConverter), fritz_test.py,             *)
(*   pdfplumber_test.py, pdfminer_test.py, poppdf_test.py, new.py and      *)
(*   pdf2htmlEX.py.                                                        *)
(*                                                                         *)
(* A string of the program (a text, an HTML document, a file's content)    *)
(* is a sequence of atoms; an atom is a TLA+ string standing for a run of  *)
(* characters, and the string of the program is the concatenation of its   *)
(* atoms.  Extracted text is made of one-character atoms plus the two      *)
(* atoms DivPage and DivPdfPage, which stand for the characters of the     *)
(* page containers' tag bodies, so that a text can spell a tag.            *)
(***************************************************************************)
EXTENDS Integers, Sequences, FiniteSets, TLC

VARIABLES
    script,        \* which script runs
    pdf,           \* the input PDF: the sequence of its pages
    inputExists,   \* the input path names a file
    outPath,       \* the output path is given (pdf2htmlEX.py: output_path may be None)
    outDirExists,  \* the directory of the output path exists
    outFile,       \* the file at the output path: [exists, data]
    pc,            \* position in convert_pdf_to_html
    doc,           \* the library's document handle: "none", "open", "closed"
    content,       \* fritz_test2: content["pages"]; the others: html_content parts
    html,          \* the assembled HTML string (atoms)
    log,           \* what was logged or printed, in order
    result,        \* outcome of convert_pdf_to_html: [kind, exc]
    exitCode,      \* exit status of the script run as a program; -1 while running
    first          \* the run before this one: [done, file, result]

vars == << script, pdf, inputExists, outPath, outDirExists, outFile, pc, doc,
           content, html, log, result, exitCode, first >>

(***************************************************************************)
(* Bounds of the model.                                                    *)
(***************************************************************************)
MaxPages == 2
MaxImages == 2
MaxBlocks == 2
MaxLines == 2
MaxSpans == 2

\* All sequences over S of length 0..n.
SeqsUpTo(S, n) == UNION { [1..k -> S] : k \in 0..n }

RECURSIVE Flatten(_)
\* The concatenation of a sequence of sequences.
Flatten(ss) == IF ss = << >> THEN << >> ELSE Head(ss) \o Flatten(Tail(ss))

RECURSIVE Join(_, _)
\* sep.join(parts): parts are strings (sequences of atoms), sep is a string.
Join(sep, parts) ==
    IF parts = << >> THEN << >>
    ELSE IF Len(parts) = 1 THEN parts[1]
    ELSE parts[1] \o sep \o Join(sep, Tail(parts))

NL == << "\n" >>

(***************************************************************************)
(* Characters and html.escape.                                             *)
(***************************************************************************)
DivPage == "div class=\"page\""
DivPdfPage == "div class=\"pdf-page\""

\* html.escape(s) with its default quote=True, character by character.
EscapeChar(c) ==
    CASE c = "&" -> "&amp;"
      [] c = "<" -> "&lt;"
      [] c = ">" -> "&gt;"
      [] c = "\"" -> "&quot;"
      [] c = "'" -> "&#x27;"
      [] OTHER -> c

HtmlEscape(s) == [i \in 1..Len(s) |-> EscapeChar(s[i])]

(***************************************************************************)
(* str.lower() and the substring test of Python's "in", on font names.     *)
(***************************************************************************)
LowerChar(c) ==
    CASE c = "B" -> "b" [] c = "O" -> "o" [] c = "L" -> "l" [] c = "D" -> "d"
      [] c = "I" -> "i" [] c = "T" -> "t" [] c = "A" -> "a" [] c = "C" -> "c"
      [] OTHER -> c

Lower(s) == [i \in 1..Len(s) |-> LowerChar(s[i])]

\* sub in s
Contains(sub, s) ==
    \E i \in 0..(Len(s) - Len(sub)) :
        \A j \in 1..Len(sub) : s[i + j] = sub[j]

(***************************************************************************)
(* base64.b64encode(data).decode(): bytes are 0..255, the result is a      *)
(* string of one-character atoms.                                          *)
(***************************************************************************)
B64Alphabet ==
    << "A","B","C","D","E","F","G","H","I","J","K","L","M","N","O","P",
       "Q","R","S","T","U","V","W","X","Y","Z","a","b","c","d","e","f",
       "g","h","i","j","k","l","m","n","o","p","q","r","s","t","u","v",
       "w","x","y","z","0","1","2","3","4","5","6","7","8","9","+","/" >>

B64Char(v) == B64Alphabet[v + 1]

RECURSIVE B64Encode(_)
B64Encode(bytes) ==
    IF Len(bytes) = 0 THEN << >>
    ELSE IF Len(bytes) = 1 THEN
        << B64Char(bytes[1] \div 4), B64Char((bytes[1] % 4) * 16), "=", "=" >>
    ELSE IF Len(bytes) = 2 THEN
        << B64Char(bytes[1] \div 4),
           B64Char((bytes[1] % 4) * 16 + bytes[2] \div 16),
           B64Char((bytes[2] % 16) * 4), "=" >>
    ELSE
        << B64Char(bytes[1] \div 4),
           B64Char((bytes[1] % 4) * 16 + bytes[2] \div 16),
           B64Char((bytes[2] % 16) * 4 + bytes[3] \div 64),
           B64Char(bytes[3] % 64) >>
        \o B64Encode(SubSeq(bytes, 4, Len(bytes)))

\* The inverse, written from RFC 4648: four characters give up to three bytes.
B64Val(c) == CHOOSE v \in 0..63 : B64Alphabet[v + 1] = c

RECURSIVE B64Decode(_)
B64Decode(chars) ==
    IF Len(chars) < 4 THEN << >>
    ELSE LET a == B64Val(chars[1])
             b == B64Val(chars[2])
             rest == B64Decode(SubSeq(chars, 5, Len(chars)))
         IN  IF chars[3] = "=" THEN << a * 4 + b \div 16 >>
             ELSE LET c == B64Val(chars[3])
                  IN  IF chars[4] = "=" THEN
                          << a * 4 + b \div 16, (b % 16) * 16 + c \div 4 >>
                      ELSE << a * 4 + b \div 16, (b % 16) * 16 + c \div 4,
                              (c % 4) * 64 + B64Val(chars[4]) >> \o rest

(***************************************************************************)
(* Python's formatting of integers: str(n) and format(n, "06x").           *)
(***************************************************************************)
Str(n) == ToString(n)

HexChars == << "0","1","2","3","4","5","6","7","8","9","a","b","c","d","e","f" >>

RECURSIVE HexDigits(_)
HexDigits(n) ==
    IF n < 16 THEN << HexChars[n + 1] >>
    ELSE HexDigits(n \div 16) \o << HexChars[(n % 16) + 1] >>

RECURSIVE ZeroPad(_, _)
ZeroPad(s, width) == IF Len(s) >= width THEN s ELSE ZeroPad(<< "0" >> \o s, width)

Hex06(n) == ZeroPad(HexDigits(n), 6)

(***************************************************************************)
(* The input: what the extraction library finds in the PDF.                *)
(* A page is [blocks, images, drawings, drawRaises]: the blocks of         *)
(* page.get_text("dict"), the xrefs of page.get_images(), the paths of     *)
(* page.get_drawings() and whether that call raises.                       *)
(***************************************************************************)
Scripts == { "fritz_test2", "fritz_test", "pdfplumber_test", "pdfminer_test",
             "poppdf_test", "new", "pdf2htmlEX" }

BBox == << 0, 0, 0, 0 >>

\* dict.get(key, default)
Get(d, key, default) == IF key \in DOMAIN d THEN d[key] ELSE default

MkSpan(t, f, s, c) == [text |-> t, bbox |-> BBox, font |-> f, size |-> s, color |-> c]

FontPlain == << "A","r","i","a","l" >>
FontBold == << "A","-","B","O","L","D" >>
FontBoldItalic == << "T","-","B","o","l","d","I","t","a","l","i","c" >>
FontItalic == << "b","o","l","-","i","T","A","L","i","c" >>

SpanPool ==
    { MkSpan(<< "a" >>, FontPlain, 12, 0),
      MkSpan(<< "<", DivPdfPage, ">" >>, FontBold, 12, 255),
      MkSpan(<< "b", "&", "\"", "'" >>, FontBoldItalic, 9, 0),
      MkSpan(<< "c" >>, FontItalic, 14, 1193046),
      [text |-> << "<", DivPage, " ", "x" >>, bbox |-> BBox] }

MkLine(spans) == [bbox |-> BBox, spans |-> spans]
MkTextBlock(lines) == [type |-> 0, bbox |-> BBox, lines |-> lines]
\* An image block of get_text("dict") has no "lines" key.
ImageBlock == [type |-> 1, bbox |-> BBox]

SpanA == MkSpan(<< "a" >>, FontPlain, 12, 0)
SpanB == MkSpan(<< "b", "&", "\"", "'" >>, FontBoldItalic, 9, 0)
SpanC == MkSpan(<< "<", DivPage, ">" >>, FontBold, 12, 255)

LinePool == { MkLine(ss) : ss \in SeqsUpTo(SpanPool, MaxSpans) }
LineFixtures == { MkLine(<< >>), MkLine(<< SpanA, SpanB >>), MkLine(<< SpanC >>) }
BlockFixtures ==
    { ImageBlock,
      MkTextBlock(<< MkLine(<< SpanB, SpanA >>) >>),
      MkTextBlock(<< MkLine(<< SpanC >>), MkLine(<< SpanA >>) >>) }

\* The image objects of the PDF by xref: what fitz.Pixmap(doc, xref) gives,
\* the bytes pix.tobytes() encodes it to, and the call that raises, if any.
Xrefs == 1..4
ImageStore(x) ==
    CASE x = 1 -> [raises |-> "none", n |-> 3, alpha |-> 0, width |-> 2, height |-> 1,
                   png |-> << 137, 80, 78 >>, jpeg |-> << 255, 216 >>]
      [] x = 2 -> [raises |-> "none", n |-> 4, alpha |-> 0, width |-> 3, height |-> 5,
                   png |-> << 137, 0 >>, jpeg |-> << 255, 216, 255, 1 >>]
      [] x = 3 -> [raises |-> "Pixmap", n |-> 3, alpha |-> 0, width |-> 1, height |-> 1,
                   png |-> << >>, jpeg |-> << >>]
      [] OTHER -> [raises |-> "none", n |-> 4, alpha |-> 1, width |-> 7, height |-> 4,
                   png |-> << 137, 80, 78, 71, 13 >>, jpeg |-> << 255 >>]

Path1 == [rect |-> BBox, color |-> 0, fill |-> 0, width |-> 2]

MkPage(blocks, images, drawings, drawRaises) ==
    [blocks |-> blocks, images |-> images, drawings |-> drawings,
     drawRaises |-> drawRaises]

DefaultBlocks == << MkTextBlock(<< MkLine(<< SpanA >>) >>) >>
DefaultImages == << 1 >>

\* Pages that differ in one respect each: their images, their blocks, the
\* lines of a block, the spans of a line, their drawings.
\* page.get_images() lists an image of the page once.
ImageLists ==
    { il \in SeqsUpTo(Xrefs, MaxImages) :
        \A i, j \in 1..Len(il) : il[i] = il[j] => i = j }
PagesByImages == { MkPage(DefaultBlocks, il, << >>, FALSE) : il \in ImageLists }
PagesByBlocks ==
    { MkPage(bl, DefaultImages, << >>, FALSE) : bl \in SeqsUpTo(BlockFixtures, MaxBlocks) }
PagesByLines ==
    { MkPage(<< MkTextBlock(ls) >>, DefaultImages, << >>, FALSE) :
        ls \in SeqsUpTo(LineFixtures, MaxLines) }
PagesBySpans ==
    { MkPage(<< MkTextBlock(<< l >>) >>, << >>, << >>, FALSE) : l \in LinePool }
PagesByDrawings ==
    { MkPage(DefaultBlocks, DefaultImages, d, r) :
        d \in { << >>, << Path1 >> }, r \in BOOLEAN }

\* The pages of the documents of more than one page.
PageFixtures ==
    { MkPage(DefaultBlocks, << 1, 3 >>, << Path1 >>, FALSE),
      MkPage(<< MkTextBlock(<< MkLine(<< SpanC, SpanB >>) >>) >>, << 2, 1 >>, << >>, TRUE),
      MkPage(<< >>, << >>, << >>, FALSE) }

Docs ==
    SeqsUpTo(PageFixtures, MaxPages)
    \cup { << p >> : p \in PagesByImages \cup PagesByBlocks \cup PagesByLines
                            \cup PagesBySpans \cup PagesByDrawings }

\* Path(pdf_path).stem / os.path.splitext(os.path.basename(pdf_path))[0]
PdfStem == << "a" >>

(***************************************************************************)
(* fritz_test2.py: PDFToHTMLConverter, extraction.                         *)
(***************************************************************************)
\* A variant that tests the font name as it is, without lower().
FontInfoCaseSensitive(span) ==
    [font |-> Get(span, "font", << >>),
     size |-> Get(span, "size", 12),
     color |-> Get(span, "color", 0),
     bold |-> Contains(<< "b","o","l","d" >>, Get(span, "font", << >>)),
     italic |-> Contains(<< "i","t","a","l","i","c" >>, Get(span, "font", << >>))]

FontInfo(span) ==
    [font |-> Get(span, "font", << >>),
     size |-> Get(span, "size", 12),
     color |-> Get(span, "color", 0),
     bold |-> Contains(<< "b","o","l","d" >>, Lower(Get(span, "font", << >>))),
     italic |-> Contains(<< "i","t","a","l","i","c" >>, Lower(Get(span, "font", << >>)))]

SpanData(span) ==
    [text |-> Get(span, "text", << >>),
     bbox |-> Get(span, "bbox", BBox),
     font_info |-> FontInfo(span)]

LineData(line) ==
    [bbox |-> line.bbox,
     spans |-> [i \in 1..Len(line.spans) |-> SpanData(line.spans[i])]]

BlockData(block) ==
    [type |-> "text", bbox |-> block.bbox,
     lines |-> [i \in 1..Len(block.lines) |-> LineData(block.lines[i])]]

IsTextBlock(block) == "lines" \in DOMAIN block

\* _extract_text_blocks(page)
ExtractTextBlocks(page) ==
    LET tb == SelectSeq(page.blocks, IsTextBlock)
    IN  [i \in 1..Len(tb) |-> BlockData(tb[i])]

\* The body of the try of _extract_images for one image raises.
ImageRaises(xref) == ImageStore(xref).raises # "none"

\* Mutant: width and height exchanged.
ImageInfoTransposed(xref, img_index, page_num) ==
    LET pix == ImageStore(xref)
        asPng == pix.n - pix.alpha < 4
    IN  [index |-> img_index,
         page |-> page_num,
         format |-> IF asPng THEN "png" ELSE "jpeg",
         data |-> B64Encode(IF asPng THEN pix.png ELSE pix.jpeg),
         width |-> pix.height,
         height |-> pix.width,
         rects |-> << BBox >>]

\* image_info of one image whose extraction does not raise.
ImageInfo(xref, img_index, page_num) ==
    LET pix == ImageStore(xref)
        asPng == pix.n - pix.alpha < 4
    IN  [index |-> img_index,
         page |-> page_num,
         format |-> IF asPng THEN "png" ELSE "jpeg",
         data |-> B64Encode(IF asPng THEN pix.png ELSE pix.jpeg),
         width |-> pix.width,
         height |-> pix.height,
         rects |-> << BBox >>]

\* Mutant: the except clause empties the list instead of going on with it.
ExtractOneImageForgetful(images, xref, img_index, page_num) ==
    IF ImageRaises(xref) THEN << >>
    ELSE Append(images, ImageInfo(xref, img_index, page_num))

\* One pass of the loop of _extract_images: the except clause logs and continues.
ExtractOneImage(images, xref, img_index, page_num) ==
    IF ImageRaises(xref) THEN images
    ELSE Append(images, ImageInfo(xref, img_index, page_num))

RECURSIVE ExtractImagesFrom(_, _, _, _)
ExtractImagesFrom(images, image_list, img_index, page_num) ==
    IF img_index >= Len(image_list) THEN images
    ELSE ExtractImagesFrom(
             ExtractOneImage(images, image_list[img_index + 1], img_index, page_num),
             image_list, img_index + 1, page_num)

\* _extract_images(page, page_num): the list it returns.
ExtractImages(page, page_num) == ExtractImagesFrom(<< >>, page.images, 0, page_num)

Warning(what, idx, page_num) ==
    [by |-> "logger.warning", what |-> what, index |-> idx, page |-> page_num]

\* _extract_images(page, page_num): its warnings, one per image that raised.
ImageWarnings(page, page_num) ==
    LET bad == SelectSeq([i \in 1..Len(page.images) |-> i],
                         LAMBDA i : ImageRaises(page.images[i]))
    IN  [k \in 1..Len(bad) |-> Warning("image", bad[k] - 1, page_num)]

DrawingInfo(path) ==
    [type |-> "drawing",
     bbox |-> Get(path, "rect", BBox),
     stroke_color |-> Get(path, "color", -1),
     fill_color |-> Get(path, "fill", -1),
     width |-> Get(path, "width", 1)]

\* _extract_drawings(page): page.get_drawings() raising is caught and logged.
ExtractDrawings(page) ==
    IF page.drawRaises THEN << >>
    ELSE [i \in 1..Len(page.drawings) |-> DrawingInfo(page.drawings[i])]

DrawingWarnings(page, page_num) ==
    IF page.drawRaises THEN << Warning("drawings", 0, page_num) >> ELSE << >>

\* _extract_page_content(page, page_num), when nothing propagates out of it.
ExtractPageContent(page, page_num) ==
    [page_num |-> page_num,
     dimensions |-> [width |-> 595, height |-> 842],
     text_blocks |-> ExtractTextBlocks(page),
     images |-> ExtractImages(page, page_num),
     drawings |-> ExtractDrawings(page)]

(***************************************************************************)
(* fritz_test2.py: PDFToHTMLConverter, HTML assembly.                      *)
(***************************************************************************)
SpanClasses(font_info) ==
    << << "text-span" >> >>
    \o (IF font_info.bold THEN << << "bold" >> >> ELSE << >>)
    \o (IF font_info.italic THEN << << "italic" >> >> ELSE << >>)

SpanStyles(font_info) ==
    (IF font_info.size # 12
       THEN << << "font-size: ", Str(font_info.size), "px" >> >> ELSE << >>)
    \o (IF font_info.color # 0
          THEN << << "color: ", "#" >> \o Hex06(font_info.color) >> ELSE << >>)

\* html.escape(span["text"])
SpanText(span) == HtmlEscape(span.text)

SpanHtml(span) ==
    LET classes == SpanClasses(span.font_info)
        styles == SpanStyles(span.font_info)
        class_attr == IF classes # << >>
                        THEN << " class=\"" >> \o Join(<< " " >>, classes) \o << "\"" >>
                        ELSE << >>
        style_attr == IF styles # << >>
                        THEN << " style=\"" >> \o Join(<< "; " >>, styles) \o << "\"" >>
                        ELSE << >>
    IN  << "<span" >> \o class_attr \o style_attr \o << ">" >>
        \o SpanText(span) \o << "</span>" >>

\* "".join(line_parts)
LineHtml(line) == Flatten([i \in 1..Len(line.spans) |-> SpanHtml(line.spans[i])])

\* _generate_text_block_html(block): a line without spans adds no part.
GenerateTextBlockHtml(block) ==
    LET lines == SelectSeq(block.lines, LAMBDA l : l.spans # << >>)
    IN  Join(NL, << << "<div class=\"text-block\">" >> >>
                 \o [i \in 1..Len(lines) |-> LineHtml(lines[i])]
                 \o << << "</div>" >> >>)

\* _generate_image_html(image); a run of white space between attributes is
\* written as one blank.
GenerateImageHtml(image) ==
    << "<div class=\"image-container\">", "<img", " src=\"",
       "data:image/", image.format, ";base64," >>
    \o image.data
    \o << "\"", " alt=\"PDF Image ", Str(image.index), "\"", " class=\"pdf-image\"",
          " width=\"", Str(image.width), "\"",
          " height=\"", Str(image.height), "\"", ">", "</div>" >>

Indent12 == "            "
Indent8 == "        "

\* Mutant: the images are added before the text blocks.
GeneratePageHtmlImagesFirst(page_data) ==
    LET blocks == SelectSeq(page_data.text_blocks, LAMBDA b : b.type = "text")
    IN  Join(NL,
          << << Indent8, "<", DivPdfPage, " id=\"page-", Str(page_data.page_num + 1), "\"", ">" >>,
             << Indent12, "<div class=\"page-number\">", "Page ",
                Str(page_data.page_num + 1), "</div>" >> >>
          \o [i \in 1..Len(page_data.images) |->
                << Indent12 >> \o GenerateImageHtml(page_data.images[i])]
          \o [i \in 1..Len(blocks) |-> << Indent12 >> \o GenerateTextBlockHtml(blocks[i])]
          \o << << Indent8, "</div>" >> >>)

\* _generate_page_html(page_data)
GeneratePageHtml(page_data) ==
    LET blocks == SelectSeq(page_data.text_blocks, LAMBDA b : b.type = "text")
    IN  Join(NL,
          << << Indent8, "<", DivPdfPage, " id=\"page-", Str(page_data.page_num + 1), "\"", ">" >>,
             << Indent12, "<div class=\"page-number\">", "Page ",
                Str(page_data.page_num + 1), "</div>" >> >>
          \o [i \in 1..Len(blocks) |-> << Indent12 >> \o GenerateTextBlockHtml(blocks[i])]
          \o [i \in 1..Len(page_data.images) |->
                << Indent12 >> \o GenerateImageHtml(page_data.images[i])]
          \o << << Indent8, "</div>" >> >>)

\* _generate_body_html(content)
GenerateBodyHtml(pages) == Join(NL, [i \in 1..Len(pages) |-> GeneratePageHtml(pages[i])])

\* _generate_css(content): one fixed string.
GenerateCss == << "CSS" >>

\* _generate_complete_html(content, pdf_path)
GenerateCompleteHtml(pages) ==
    << "<!DOCTYPE html>", "\n", "<html lang=\"en\">", "\n", "<head>", "\n",
       "<meta charset=\"UTF-8\">", "\n", "<meta name=\"viewport\">", "\n", "<title>" >>
    \o HtmlEscape(PdfStem)
    \o << "</title>", "\n", "<style>", "\n" >> \o GenerateCss
    \o << "\n", "</style>", "\n", "</head>", "\n", "<body>", "\n",
          "<div class=\"pdf-container\">", "\n", "<h1 class=\"pdf-title\">" >>
    \o HtmlEscape(PdfStem)
    \o << "</h1>", "\n" >>
    \o GenerateBodyHtml(pages)
    \o << "\n", "</div>", "\n", "</body>", "\n", "</html>" >>

(***************************************************************************)
(* What the libraries return for the text-only scripts.  Only the shape    *)
(* matters here: the text of the page, escaped by the library where the    *)
(* library produces HTML itself.                                           *)
(***************************************************************************)
\* The text of a page, its lines separated by newlines.
PageLines(page) ==
    LET tb == SelectSeq(page.blocks, IsTextBlock)
    IN  Flatten([i \in 1..Len(tb) |->
            [j \in 1..Len(tb[i].lines) |->
                Flatten([k \in 1..Len(tb[i].lines[j].spans) |->
                            Get(tb[i].lines[j].spans[k], "text", << >>)])]])

\* pdfplumber: page.extract_text()
ExtractText(page) == Join(NL, PageLines(page))

\* fitz: page.get_text("html")
GetTextHtml(page) ==
    LET ls == PageLines(page)
    IN  << "<div id=\"page0\">" >>
        \o Flatten([i \in 1..Len(ls) |-> << "<p>" >> \o HtmlEscape(ls[i]) \o << "</p>" >>])
        \o << "</div>" >>

\* pdfminer: extract_text_to_fp(fin, out, output_type='html'), what it writes to out
ExtractTextToFp(pages) ==
    << "<html>", "<head>", "</head>", "<body>" >>
    \o Flatten([i \in 1..Len(pages) |->
           << "<a name=\"", Str(i), "\">", "Page ", Str(i), "</a>" >>
           \o HtmlEscape(ExtractText(pages[i]))])
    \o << "</body>", "</html>" >>

\* pypdf2htmlEX: PDF(pdf_path).to_html()
ToHtml(pages) ==
    << "<!DOCTYPE html>", "<html>", "<body>" >>
    \o Flatten([i \in 1..Len(pages) |->
           << "<div id=\"pf", Str(i), "\">" >>
           \o HtmlEscape(ExtractText(pages[i])) \o << "</div>" >>])
    \o << "</body>", "</html>" >>

(***************************************************************************)
(* fritz_test.py, pdfplumber_test.py, new.py, pdfminer_test.py,            *)
(* poppdf_test.py: the strings they build.                                 *)
(***************************************************************************)
\* fritz_test.py lines 18-32
FritzTestHeader ==
    << "\n", "<!DOCTYPE html>", "\n", "<html>", "\n", "<head>", "\n",
       "<meta charset=\"utf-8\">", "\n", "<style>", "CSS", "</style>", "\n",
       "</head>", "\n", "<body>", "\n" >>

\* fritz_test.py lines 37-41: the three parts appended for page number page_num
FritzTestPageParts(page, page_num) ==
    << << "<", DivPage, " id=\"page-", Str(page_num), "\"", ">" >>,
       GetTextHtml(page),
       << "</div>" >> >>

\* pdfplumber_test.py line 17
PlumberHeader ==
    << "<!DOCTYPE html>", "\n", "<html>", "\n", "<head>", "\n",
       "<meta charset=\"utf-8\">", "\n", "<title>", "PDF to HTML", "</title>", "\n",
       "<style>", "CSS", "</style>", "\n", "</head>", "\n", "<body>" >>

\* pdfplumber_test.py line 28
PlumberPre(text) == << "<pre>" >> \o text \o << "</pre>" >>

\* pdfplumber_test.py lines 21-31: the parts appended for the page of index i
PlumberPageParts(page, i) ==
    LET text == ExtractText(page)
    IN  << << "<", DivPage, " id=\"page-", Str(i + 1), "\"", ">" >>,
           << "<h2>", "Page ", Str(i + 1), "</h2>" >> >>
        \o (IF text # << >>
              THEN << << "<div class=\"text-block\">" >>, PlumberPre(text), << "</div>" >> >>
              ELSE << >>)
        \o << << "</div>" >> >>

\* new.py line 10
NewHtml(html_content) ==
    << "<html>", "<body>" >> \o html_content \o << "</body>", "</html>" >>

\* poppdf_test.py lines 40-57: html_template.  For str.format a brace opens a
\* replacement field: "{}" is the next positional argument, and each CSS rule
\* body "{ name: ... }" is a field with a name, looked up among the keyword
\* arguments.
PoppdfCssRules ==
    { "{ font-family: Arial, sans-serif; line-height: 1.6; }",
      "{ margin-bottom: 1em; }",
      "{ border-collapse: collapse; width: 100%; }",
      "{ border: 1px solid #ddd; padding: 8px; }",
      "{ white-space: pre-wrap; }" }

PoppdfTemplate ==
    << "\n", "<!DOCTYPE html>", "\n", "<html>", "\n", "<head>", "\n",
       "<meta charset=\"utf-8\">", "\n", "<style>", "\n",
       "body ", "{ font-family: Arial, sans-serif; line-height: 1.6; }", "\n",
       "div ", "{ margin-bottom: 1em; }", "\n",
       "table ", "{ border-collapse: collapse; width: 100%; }", "\n",
       "td, th ", "{ border: 1px solid #ddd; padding: 8px; }", "\n",
       "pre ", "{ white-space: pre-wrap; }", "\n",
       "</style>", "\n", "</head>", "\n", "<body>", "\n", "{}", "\n",
       "</body>", "\n", "</html>", "\n" >>

IsNamedField(atom) == atom \in PoppdfCssRules

\* template.format(arg) raises KeyError: a named field and no keyword argument.
FormatRaises(template) == \E i \in 1..Len(template) : IsNamedField(template[i])

\* template.format(arg), when it does not raise
Format(template, arg) ==
    Flatten([i \in 1..Len(template) |->
                IF template[i] = "{}" THEN arg ELSE << template[i] >>])

(***************************************************************************)
(* The state machine.                                                      *)
(***************************************************************************)
NoFile == [exists |-> FALSE, data |-> << >>]
OldFile == [exists |-> TRUE, data |-> << "OLD" >>]

Running == [kind |-> "running", val |-> "-", caught |-> "-"]
Returned(v) == [kind |-> "returned", val |-> v, caught |-> "-"]

\* No run came before this one.
NoRun == [done |-> FALSE, file |-> NoFile, result |-> Running]

Init ==
    /\ script \in Scripts
    /\ pdf \in Docs
    /\ inputExists \in BOOLEAN
    /\ outPath \in { "given", "none" }
    /\ outPath = "none" => script \in { "fritz_test2", "pdf2htmlEX" }
    /\ outDirExists \in BOOLEAN
    \* fritz_test2 computes "<stem>.html", a path in the working directory
    /\ (script = "fritz_test2" /\ outPath = "none") => outDirExists
    /\ outFile \in { NoFile, OldFile }
    /\ outFile.exists => outDirExists
    /\ pc = "start"
    /\ doc = "none"
    /\ content = << >>
    /\ html = << >>
    /\ log = << >>
    /\ result = Running
    /\ exitCode = -1
    /\ first = NoRun

Env == << script, pdf, inputExists, outPath >>

\* A variant that opens the file to append, as open(output_path, "a") does.
OpenForAppending(file, dirExists) ==
    IF dirExists THEN [exists |-> TRUE, data |-> file.data] ELSE file

\* open(output_path, "w") creates or truncates the file; it raises when the
\* directory is missing.
OpenForWriting(file, dirExists) == IF dirExists THEN [exists |-> TRUE, data |-> << >>] ELSE file

\* f.write(s) on the file just opened
WriteFile(file, s) == [exists |-> TRUE, data |-> file.data \o s]

\* os.makedirs(output_folder, exist_ok=True)
MakeDirs(dirExists) == TRUE

\* Mutant: the handler logs the exception and the conversion carries on.
ClassHandlerSwallows(e) ==
    /\ log' = Append(log, [by |-> "logger.error", what |-> "convert", exc |-> e])
    /\ UNCHANGED << result, pc >>

\* Mutant: the handler returns None without printing.
SilentReturnNone(chan, e) ==
    /\ log' = log
    /\ result' = [kind |-> "returned", val |-> "None", caught |-> e]
    /\ pc' = "ended"

\* Mutant: the handler prints and does not raise.
PrintNoReraise(e) ==
    /\ log' = Append(log, [by |-> "print.stderr", what |-> "convert", exc |-> e])
    /\ result' = [kind |-> "returned", val |-> "None", caught |-> e]
    /\ pc' = "ended"

\* The except clause of a convert_pdf_to_html catches exception e.
\* fritz_test2.py lines 92-94: log, re-raise
ClassHandler(e) ==
    /\ log' = Append(log, [by |-> "logger.error", what |-> "convert", exc |-> e])
    /\ result' = [kind |-> "raised", val |-> e, caught |-> e]
    /\ pc' = "ended"

\* fritz_test.py lines 52-53: print to stderr; the function then returns None
\* pdfplumber_test.py lines 42-44: print; return None
PrintReturnNone(chan, e) ==
    /\ log' = Append(log, [by |-> chan, what |-> "convert", exc |-> e])
    /\ result' = [kind |-> "returned", val |-> "None", caught |-> e]
    /\ pc' = "ended"

\* pdfminer_test.py lines 31-33, poppdf_test.py lines 67-69: print to stderr; raise
PrintReraise(e) ==
    /\ log' = Append(log, [by |-> "print.stderr", what |-> "convert", exc |-> e])
    /\ result' = [kind |-> "raised", val |-> e, caught |-> e]
    /\ pc' = "ended"

\* new.py lines 13-14, pdf2htmlEX.py lines 11-12: raise ValueError(f"... {e}")
RaiseValueError(e) ==
    /\ log' = log
    /\ result' = [kind |-> "raised", val |-> "ValueError", caught |-> e]
    /\ pc' = "ended"

\* The library opens the input: it raises when the file is missing, and it
\* may raise on a file it cannot read.
OpenOutcomes == IF inputExists THEN { "ok", "OpenError" } ELSE { "FileNotFoundError" }

\* A library call on an open document returns or raises.
CallOutcomes == { "ok", "LibraryError" }
\* fritz_test2.py line 159, page.get_text("dict"), and line 204, page.get_images()
GetTextOutcomes == { "ok", "GetTextError" }
GetImagesOutcomes == { "ok", "GetImagesError" }

\* open(output_path, "w"): raises without the directory, and may raise on a
\* path that cannot be written.
WriteOutcomes == IF outDirExists THEN { "ok", "OSError" } ELSE { "NoSuchDirectory" }

(***************************************************************************)
(* fritz_test2.py: PDFToHTMLConverter.convert_pdf_to_html                  *)
(***************************************************************************)
\* lines 66-67: the check of the input path, before the try
ClassCheckInput ==
    /\ script = "fritz_test2" /\ pc = "start"
    /\ IF ~inputExists
         THEN /\ result' = [kind |-> "raised", val |-> "FileNotFoundError", caught |-> "-"]
              /\ pc' = "ended"
         ELSE /\ pc' = "open"
              /\ result' = result
    /\ UNCHANGED << Env, first, outDirExists, outFile, doc, content, html, log, exitCode >>

\* line 71: fitz.open(pdf_path)
ClassOpen ==
    /\ script = "fritz_test2" /\ pc = "open"
    /\ \E o \in OpenOutcomes :
         IF o = "ok"
           THEN /\ doc' = "open"
                /\ pc' = "pages"
                /\ UNCHANGED << log, result >>
           ELSE /\ ClassHandler(o)
                /\ doc' = doc
    /\ UNCHANGED << Env, first, outDirExists, outFile, content, html, exitCode >>

\* lines 108-111: one pass of the loop of _extract_content_from_pdf, that is
\* _extract_page_content for the next page.  get_text("dict") and
\* get_images() may raise: nothing catches that before the handler.
ClassExtractPage ==
    /\ script = "fritz_test2" /\ pc = "pages" /\ Len(content) < Len(pdf)
    /\ LET page_num == Len(content)
           page == pdf[page_num + 1]
       IN  \E text \in GetTextOutcomes, imgs \in GetImagesOutcomes :
             IF text # "ok" THEN
                 /\ ClassHandler(text)
                 /\ content' = content
             ELSE IF imgs # "ok" THEN
                 /\ ClassHandler(imgs)
                 /\ content' = content
             ELSE
                 /\ content' = Append(content, ExtractPageContent(page, page_num))
                 /\ log' = log \o ImageWarnings(page, page_num)
                                \o DrawingWarnings(page, page_num)
                 /\ UNCHANGED << pc, result >>
    /\ UNCHANGED << Env, first, outDirExists, outFile, doc, html, exitCode >>

\* line 77: _generate_complete_html, once every page is extracted
ClassGenerate ==
    /\ script = "fritz_test2" /\ pc = "pages" /\ Len(content) = Len(pdf)
    /\ html' = GenerateCompleteHtml(content)
    /\ pc' = "write"
    /\ UNCHANGED << Env, first, outDirExists, outFile, doc, content, log, result, exitCode >>

\* lines 80-90: the output path, the write, doc.close(), the info log, return
ClassWrite ==
    /\ script = "fritz_test2" /\ pc = "write"
    /\ \E o \in WriteOutcomes :
         IF o = "ok"
           THEN /\ outFile' = WriteFile(OpenForWriting(outFile, outDirExists), html)
                /\ doc' = "closed"
                /\ log' = Append(log, [by |-> "logger.info", what |-> "success", exc |-> "-"])
                /\ result' = Returned("output_path")
                /\ pc' = "ended"
           ELSE /\ ClassHandler(o)
                /\ UNCHANGED << outFile, doc >>
    /\ UNCHANGED << Env, first, outDirExists, content, html, exitCode >>

(***************************************************************************)
(* fritz_test.py: convert_pdf_to_html                                      *)
(***************************************************************************)
\* lines 8-34: makedirs, the paths, the header, fitz.open
FritzTestOpen ==
    /\ script = "fritz_test" /\ pc = "start"
    /\ outDirExists' = MakeDirs(outDirExists)
    /\ \E o \in OpenOutcomes :
         IF o = "ok"
           THEN /\ doc' = "open"
                /\ content' = << FritzTestHeader >>
                /\ pc' = "pages"
                /\ UNCHANGED << log, result >>
           ELSE /\ PrintReturnNone("print.stderr", o)
                /\ UNCHANGED << doc, content >>
    /\ UNCHANGED << Env, first, outFile, html, exitCode >>

\* The number of pages whose parts are in content: after the header, each
\* page adds three parts.
FritzTestPagesDone == (Len(content) - 1) \div 3

\* lines 35-41: one pass of the loop; leaving the with block closes the document
FritzTestPage ==
    /\ script = "fritz_test" /\ pc = "pages" /\ FritzTestPagesDone < Len(pdf)
    /\ LET page_num == FritzTestPagesDone + 1
       IN  \E o \in CallOutcomes :
             IF o = "ok"
               THEN /\ content' = content \o FritzTestPageParts(pdf[page_num], page_num)
                    /\ UNCHANGED << doc, pc, log, result >>
               ELSE /\ PrintReturnNone("print.stderr", o)
                    /\ doc' = "closed"
                    /\ content' = content
    /\ UNCHANGED << Env, first, outDirExists, outFile, html, exitCode >>

\* lines 44-50: the footer, the write, the message
FritzTestWrite ==
    /\ script = "fritz_test" /\ pc = "pages" /\ FritzTestPagesDone = Len(pdf)
    /\ \E o \in WriteOutcomes :
         IF o = "ok"
           THEN /\ content' = Append(content, << "</body>", "</html>" >>)
                /\ html' = Join(NL, content')
                /\ outFile' = WriteFile(OpenForWriting(outFile, outDirExists), html')
                /\ log' = Append(log, [by |-> "print", what |-> "success", exc |-> "-"])
                /\ result' = Returned("None")
                /\ pc' = "ended"
           ELSE /\ content' = Append(content, << "</body>", "</html>" >>)
                /\ PrintReturnNone("print.stderr", o)
                /\ UNCHANGED << html, outFile >>
    /\ doc' = "closed"
    /\ UNCHANGED << Env, first, outDirExists, exitCode >>

(***************************************************************************)
(* pdfplumber_test.py: convert_pdf_to_html                                 *)
(***************************************************************************)
\* lines 8-19: makedirs, the paths, the header, pdfplumber.open
PlumberOpen ==
    /\ script = "pdfplumber_test" /\ pc = "start"
    /\ outDirExists' = MakeDirs(outDirExists)
    /\ \E o \in OpenOutcomes :
         IF o = "ok"
           THEN /\ doc' = "open"
                /\ content' = << << PlumberHeader >> >>
                /\ pc' = "pages"
                /\ UNCHANGED << log, result >>
           ELSE /\ PrintReturnNone("print", o)
                /\ UNCHANGED << doc, content >>
    /\ UNCHANGED << Env, first, outFile, html, exitCode >>

\* lines 20-31: one pass of the loop.  content[1] is the header, content[i+1]
\* the parts of the page of index i - 1.
PlumberPage ==
    /\ script = "pdfplumber_test" /\ pc = "pages" /\ Len(content) - 1 < Len(pdf)
    /\ LET i == Len(content) - 1
       IN  \E o \in CallOutcomes :
             IF o = "ok"
               THEN /\ content' = Append(content, PlumberPageParts(pdf[i + 1], i))
                    /\ UNCHANGED << doc, pc, log, result >>
               ELSE /\ PrintReturnNone("print", o)
                    /\ doc' = "closed"
                    /\ content' = content
    /\ UNCHANGED << Env, first, outDirExists, outFile, html, exitCode >>

\* lines 34-40: the closing tags, the write, return output_path
PlumberWrite ==
    /\ script = "pdfplumber_test" /\ pc = "pages" /\ Len(content) - 1 = Len(pdf)
    /\ \E o \in WriteOutcomes :
         IF o = "ok"
           THEN /\ html' = Join(NL, Flatten(content) \o << << "</body>", "\n", "</html>" >> >>)
                /\ outFile' = WriteFile(OpenForWriting(outFile, outDirExists), html')
                /\ result' = Returned("output_path")
                /\ pc' = "ended"
                /\ log' = log
           ELSE /\ PrintReturnNone("print", o)
                /\ UNCHANGED << html, outFile >>
    /\ doc' = "closed"
    /\ UNCHANGED << Env, first, outDirExists, content, exitCode >>

(***************************************************************************)
(* new.py: convert_pdf_to_html                                             *)
(***************************************************************************)
\* lines 5-6
NewOpen ==
    /\ script = "new" /\ pc = "start"
    /\ \E o \in OpenOutcomes :
         IF o = "ok"
           THEN /\ doc' = "open"
                /\ pc' = "pages"
                /\ UNCHANGED << log, result >>
           ELSE /\ RaiseValueError(o)
                /\ doc' = doc
    /\ UNCHANGED << Env, first, outDirExists, outFile, content, html, exitCode >>

\* lines 7-8: one pass of the loop; content holds one part per page read
NewPage ==
    /\ script = "new" /\ pc = "pages" /\ Len(content) < Len(pdf)
    /\ \E o \in CallOutcomes :
         IF o = "ok"
           THEN /\ content' = Append(content, GetTextHtml(pdf[Len(content) + 1]))
                /\ UNCHANGED << pc, log, result >>
           ELSE /\ RaiseValueError(o)
                /\ content' = content
    /\ UNCHANGED << Env, first, outDirExists, outFile, doc, html, exitCode >>

\* lines 9-12: the write, doc.close(), return output_path
NewWrite ==
    /\ script = "new" /\ pc = "pages" /\ Len(content) = Len(pdf)
    /\ \E o \in WriteOutcomes :
         IF o = "ok"
           THEN /\ html' = NewHtml(Flatten(content))
                /\ outFile' = WriteFile(OpenForWriting(outFile, outDirExists), html')
                /\ doc' = "closed"
                /\ result' = Returned("output_path")
                /\ pc' = "ended"
                /\ log' = log
           ELSE /\ RaiseValueError(o)
                /\ UNCHANGED << html, outFile, doc >>
    /\ UNCHANGED << Env, first, outDirExists, content, exitCode >>

(***************************************************************************)
(* pdfminer_test.py and poppdf_test.py: convert_pdf_to_html                *)
(***************************************************************************)
\* pdfminer_test.py lines 9-22, poppdf_test.py lines 10-37: makedirs, the
\* paths, open(pdf_path, 'rb'), extract_text_to_fp into the buffer
MinerExtract ==
    /\ script \in { "pdfminer_test", "poppdf_test" } /\ pc = "start"
    /\ outDirExists' = MakeDirs(outDirExists)
    /\ \E o \in OpenOutcomes :
         IF o = "ok"
           THEN /\ content' = << ExtractTextToFp(pdf) >>
                /\ pc' = "write"
                /\ UNCHANGED << log, result >>
           ELSE /\ PrintReraise(o)
                /\ content' = content
    /\ UNCHANGED << Env, first, outFile, doc, html, exitCode >>

\* pdfminer_test.py lines 25-29: the write of the buffer, the message
MinerWrite ==
    /\ script = "pdfminer_test" /\ pc = "write"
    /\ \E o \in WriteOutcomes :
         IF o = "ok"
           THEN /\ html' = content[1]
                /\ outFile' = WriteFile(OpenForWriting(outFile, outDirExists), html')
                /\ log' = Append(log, [by |-> "print", what |-> "success", exc |-> "-"])
                /\ result' = Returned("None")
                /\ pc' = "ended"
           ELSE /\ PrintReraise(o)
                /\ UNCHANGED << html, outFile >>
    /\ UNCHANGED << Env, first, outDirExists, doc, content, exitCode >>

\* poppdf_test.py lines 60-65: the output file is opened, then the template
\* is formatted, then the result is written
PoppdfWrite ==
    /\ script = "poppdf_test" /\ pc = "write"
    /\ \E o \in WriteOutcomes :
         IF o # "ok" THEN
             /\ PrintReraise(o)
             /\ UNCHANGED << html, outFile >>
         ELSE IF FormatRaises(PoppdfTemplate) THEN
             /\ outFile' = OpenForWriting(outFile, outDirExists)
             /\ PrintReraise("KeyError")
             /\ html' = html
         ELSE
             /\ html' = Format(PoppdfTemplate, content[1])
             /\ outFile' = WriteFile(OpenForWriting(outFile, outDirExists), html')
             /\ log' = Append(log, [by |-> "print", what |-> "success", exc |-> "-"])
             /\ result' = Returned("None")
             /\ pc' = "ended"
    /\ UNCHANGED << Env, first, outDirExists, doc, content, exitCode >>

(***************************************************************************)
(* pdf2htmlEX.py: convert_pdf_to_html                                      *)
(***************************************************************************)
\* lines 5-12: the whole function
ExConvert ==
    /\ script = "pdf2htmlEX" /\ pc = "start"
    /\ \E o \in OpenOutcomes, w \in WriteOutcomes :
         IF o # "ok" THEN
             /\ RaiseValueError(o)
             /\ UNCHANGED << html, outFile >>
         ELSE IF outPath = "none" THEN
             /\ html' = ToHtml(pdf)
             /\ result' = Returned("html")
             /\ pc' = "ended"
             /\ UNCHANGED << outFile, log >>
         ELSE IF w # "ok" THEN
             /\ html' = ToHtml(pdf)
             /\ RaiseValueError(w)
             /\ outFile' = outFile
         ELSE
             /\ html' = ToHtml(pdf)
             /\ outFile' = WriteFile(OpenForWriting(outFile, outDirExists), html')
             /\ result' = Returned("html")
             /\ pc' = "ended"
             /\ log' = log
    /\ UNCHANGED << Env, first, outDirExists, doc, content, exitCode >>

(***************************************************************************)
(* The code of each script after its call of convert_pdf_to_html.          *)
(***************************************************************************)
\* An exception nothing catches ends the interpreter with status 1.
\* fritz_test2.py lines 590-595: print the result, or print the error and sys.exit(1)
\* pdfplumber_test.py lines 47-51: print one of two messages
ScriptEnd ==
    /\ pc = "ended"
    /\ pc' = "exited"
    /\ exitCode' = IF result.kind = "raised" THEN 1 ELSE 0
    /\ log' = CASE script = "fritz_test2" ->
                     Append(log, [by |-> "print", exc |-> result.val,
                                  what |-> IF result.kind = "raised" THEN "Error" ELSE "success"])
                [] script = "pdfplumber_test" ->
                     Append(log, [by |-> "print", exc |-> "-",
                                  what |-> IF result.val = "None" THEN "failed" ELSE "created"])
                [] OTHER -> log
    /\ UNCHANGED << Env, first, outDirExists, outFile, doc, content, html, result >>

Next ==
    \/ ClassCheckInput \/ ClassOpen \/ ClassExtractPage \/ ClassGenerate \/ ClassWrite
    \/ FritzTestOpen \/ FritzTestPage \/ FritzTestWrite
    \/ PlumberOpen \/ PlumberPage \/ PlumberWrite
    \/ NewOpen \/ NewPage \/ NewWrite
    \/ MinerExtract \/ MinerWrite \/ PoppdfWrite
    \/ ExConvert
    \/ ScriptEnd

Spec == Init /\ [][Next]_vars

(***************************************************************************)
(* The same conversion run a second time: the script is started again on   *)
(* the same input and output path.  Nothing of the first run is left but   *)
(* the file system; the module-level state of the scripts is rebuilt and   *)
(* the console starts empty.                                               *)
(***************************************************************************)
CallAgain ==
    /\ pc = "exited" /\ ~first.done
    /\ first' = [done |-> TRUE, file |-> outFile, result |-> result]
    /\ pc' = "start"
    /\ doc' = "none"
    /\ content' = << >>
    /\ html' = << >>
    /\ log' = << >>
    /\ result' = Running
    /\ exitCode' = -1
    /\ UNCHANGED << Env, outDirExists, outFile >>

NextTwice == Next \/ CallAgain

SpecTwice == Init /\ [][NextTwice]_vars

(***************************************************************************)
(* Reading an HTML document back: where its elements are.                  *)
(***************************************************************************)
Indices(d) == [i \in 1..Len(d) |-> i]

\* The positions where a start tag <div class="..."> of the page container
\* begins: a "<" followed by the characters of the tag body.
PageStarts(d, tagBody) ==
    SelectSeq(Indices(d), LAMBDA i : d[i] = "<" /\ i < Len(d) /\ d[i + 1] = tagBody)

\* The k-th page container reaches from its start tag to the next one.
PageEnd(d, starts, k) == IF k < Len(starts) THEN starts[k + 1] - 1 ELSE Len(d)

AtomsIn(d, lo, hi, atom) ==
    SelectSeq(Indices(d), LAMBDA i : lo <= i /\ i <= hi /\ d[i] = atom)

\* The first position after i holding atom; Len(d) + 1 when there is none.
NextAtom(d, i, atom) ==
    IF \E j \in (i + 1)..Len(d) : d[j] = atom
      THEN CHOOSE j \in (i + 1)..Len(d) :
               d[j] = atom /\ \A m \in (i + 1)..(j - 1) : d[m] # atom
      ELSE Len(d) + 1

\* The value of attribute attr (an atom such as  width=" ) of the tag at i.
AttrValue(d, i, attr) ==
    LET a == NextAtom(d, i, attr) IN SubSeq(d, a + 1, NextAtom(d, a, "\"") - 1)

\* The base64 payload of the data URI of the <img at i.
ImgPayload(d, i) ==
    LET b == NextAtom(d, i, ";base64,") IN SubSeq(d, b + 1, NextAtom(d, b, "\"") - 1)

ImgFormat(d, i) == d[NextAtom(d, i, "data:image/") + 1]

\* The content of the element whose start tag begins at i and ends with ">",
\* up to the end tag close.
ElementContent(d, i, close) ==
    LET gt == NextAtom(d, i, ">") IN SubSeq(d, gt + 1, NextAtom(d, gt, close) - 1)

RawSpecials == { "&", "<", ">", "\"", "'" }

\* The characters an escaped text stands for.
UnescapeChar(c) ==
    CASE c = "&amp;" -> "&"
      [] c = "&lt;" -> "<"
      [] c = "&gt;" -> ">"
      [] c = "&quot;" -> "\""
      [] c = "&#x27;" -> "'"
      [] OTHER -> c

Unescape(s) == [i \in 1..Len(s) |-> UnescapeChar(s[i])]

(***************************************************************************)
(* What the claims speak of.                                               *)
(***************************************************************************)
Ended == pc \in { "ended", "exited" }
Untouched(file) == file \in { NoFile, OldFile }
IsClass == script = "fritz_test2"

\* The positions (from 0) of the images of a page whose extraction succeeds.
GoodImages(page) ==
    SelectSeq([i \in 1..Len(page.images) |-> i - 1],
              LAMBDA i : ImageStore(page.images[i + 1]).raises = "none")

WarningsFor(what, page_num) ==
    SelectSeq(log, LAMBDA e : e.by = "logger.warning" /\ e.what = what /\ e.page = page_num)

ErrorLogs == SelectSeq(log, LAMBDA e : e.by = "logger.error")

\* The alt indices of the <img> tags of the k-th page container of the file.
FileImageIndices(d, k) ==
    LET starts == PageStarts(d, DivPdfPage)
        imgs == AtomsIn(d, starts[k], PageEnd(d, starts, k), "<img")
    IN  [j \in 1..Len(imgs) |-> AttrValue(d, imgs[j], " alt=\"PDF Image ")]

Reported ==
    \/ result.kind = "raised"
    \/ \E i \in 1..Len(log) :
         log[i].what = "convert" /\ log[i].exc # "-"
           /\ log[i].by \in { "logger.error", "print", "print.stderr" }

PageTagOf(s) == IF s = "fritz_test2" THEN DivPdfPage ELSE DivPage

Converted ==
    /\ Ended /\ result.kind = "returned" /\ result.caught = "-" /\ outFile.exists
    /\ ~Untouched(outFile)

\* The texts of the spans of a page in the order the library supplied them.
SuppliedSpanTexts(page) ==
    LET tb == SelectSeq(page.blocks, IsTextBlock)
    IN  Flatten([i \in 1..Len(tb) |->
            Flatten([j \in 1..Len(tb[i].lines) |->
                [k \in 1..Len(tb[i].lines[j].spans) |->
                    Get(tb[i].lines[j].spans[k], "text", << >>)]])])

\* The texts of the spans of the k-th page container of the file.
FileSpanTexts(d, k) ==
    LET starts == PageStarts(d, DivPdfPage)
        spans == AtomsIn(d, starts[k], PageEnd(d, starts, k), "<span")
    IN  [j \in 1..Len(spans) |-> Unescape(ElementContent(d, spans[j], "</span>"))]

Failed == result.kind = "raised" \/ result.caught # "-"

\* The error was logged or printed by the script's own code.
ErrorShown ==
    \E i \in 1..Len(log) :
      /\ log[i].by \in { "logger.error", "print", "print.stderr" }
      /\ log[i].what \in { "convert", "Error" }
      /\ log[i].exc # "-"

Outcome ==
    \/ result.kind = "raised"
    \/ result.kind = "returned" /\ result.val = "None"
    \/ exitCode # 0

WrapsInValueError == script \in { "new", "pdf2htmlEX" }

EnvironmentFaults ==
    { "FileNotFoundError", "OpenError", "LibraryError", "GetTextError",
      "GetImagesError", "OSError", "NoSuchDirectory" }

HoldsText(d, page) ==
    LET ts == SuppliedSpanTexts(page)
    IN  \A i \in 1..Len(ts) : Contains(ts[i], d) \/ Contains(HtmlEscape(ts[i]), d)

NoRawSpecial(s) == \A i \in 1..Len(s) : s[i] \notin RawSpecials

FilePres(d) ==
    LET pres == AtomsIn(d, 1, Len(d), "<pre>")
    IN  [j \in 1..Len(pres) |-> SubSeq(d, pres[j] + 1, NextAtom(d, pres[j], "</pre>") - 1)]

NonEmptyPageTexts ==
    SelectSeq([k \in 1..Len(pdf) |-> ExtractText(pdf[k])], LAMBDA t : t # << >>)

C3_MissingInputReportedNoOutput ==
    (~inputExists /\ Ended) =>
      /\ Reported
      /\ result.caught \in { "FileNotFoundError", "-" }
      /\ result.kind = "returned" => result.val = "None"
      /\ Untouched(outFile)
      /\ html = << >>

\* fritz_test.py ran on a missing input, over an older output file.
C3_Witness ==
    /\ script = "fritz_test" /\ ~inputExists /\ pc = "exited"
    /\ outFile = OldFile /\ result.val = "None"

(***************************************************************************)
(* C4.  As stated: for a PDF of N pages converted successfully, the HTML   *)
(* written by PDFToHTMLConverter holds exactly N <div class="pdf-page">    *)
(* start tags, and the HTML written by fritz_test.py and by                *)
(* pdfplumber_test.py exactly N <div class="page"> start tags.             *)
(***************************************************************************)
C4_PageContainerPerPage ==
    (script \in { "fritz_test2", "fritz_test", "pdfplumber_test" } /\ Converted) =>
      Len(PageStarts(outFile.data, PageTagOf(script))) = Len(pdf)

(***************************************************************************)
(* C5.  In the HTML written by PDFToHTMLConverter the page containers      *)
(* carry the page numbers 1..N in this order; in each page container       *)
(* every span of text comes before every image; and the texts of the       *)
(* spans of a page container are, in this order, the texts of the spans    *)
(* of the page's text blocks as the library supplied them: block by block, *)
(* line by line, span by span.                                             *)
(***************************************************************************)
C5_OutputOrder ==
    (IsClass /\ Converted) =>
      LET d == outFile.data
          starts == PageStarts(d, DivPdfPage)
      IN  /\ Len(starts) = Len(pdf)
          /\ \A k \in 1..Len(starts) :
               /\ AttrValue(d, starts[k], " id=\"page-") = << Str(k) >>
               /\ \A i, j \in starts[k]..PageEnd(d, starts, k) :
                    (d[i] = "<span" /\ d[j] = "<img") => i < j
               /\ FileSpanTexts(d, k) = SuppliedSpanTexts(pdf[k])
               /\ FileImageIndices(d, k)
                    = [j \in 1..Len(content[k].images) |-> << Str(content[k].images[j].index) >>]

\* A written document of two pages, the first with two spans of different
\* texts in one line and with a kept image.
C5_Witness ==
    /\ IsClass /\ Converted /\ Len(pdf) = 2
    /\ \E b \in 1..Len(pdf[1].blocks) :
         /\ IsTextBlock(pdf[1].blocks[b])
         /\ \E l \in 1..Len(pdf[1].blocks[b].lines) :
              LET ss == pdf[1].blocks[b].lines[l].spans
              IN  Len(ss) = 2 /\ ss[1].text # ss[2].text
    /\ content[1].images # << >>

\* The same for one page with two text blocks, the first of two lines.
C5_WitnessBlocks ==
    /\ IsClass /\ Converted /\ Len(pdf) = 1
    /\ Len(content[1].text_blocks) = 2
    /\ Len(content[1].text_blocks[1].lines) = 2
    /\ content[1].images # << >>

(***************************************************************************)
(* C6.  As stated: in every script an exception raised inside              *)
(* convert_pdf_to_html reaches a catch-all that logs or prints the error   *)
(* and then re-raises it, returns a null result, or makes the script exit  *)
(* with a status other than 0.                                             *)
(***************************************************************************)
C6_Original_CatchAllReportsThenFails ==
    (pc = "exited" /\ Failed) => (ErrorShown /\ Outcome)

(***************************************************************************)
(* C6, amended.  In fritz_test2.py, fritz_test.py, pdfplumber_test.py,     *)
(* pdfminer_test.py and poppdf_test.py an exception raised inside          *)
(* convert_pdf_to_html is logged or printed by a catch-all of the script,  *)
(* which then re-raises it, returns None, or exits with status 1.  The     *)
(* catch-all of new.py and of pdf2htmlEX.py logs and prints nothing: it    *)
(* raises a new ValueError made from the exception.                        *)
(***************************************************************************)
C6_CatchAllPolicy ==
    (pc = "exited" /\ Failed) =>
      /\ Outcome
      /\ ~WrapsInValueError => ErrorShown
      /\ WrapsInValueError =>
           /\ log = << >>
           /\ result.kind = "raised" /\ result.val = "ValueError"
           /\ result.caught # "-"
           /\ exitCode = 1
      /\ script \in { "fritz_test", "pdfplumber_test" } =>
           (result.kind = "returned" /\ result.val = "None" /\ exitCode = 0)
      /\ script \in { "pdfminer_test", "poppdf_test", "fritz_test2" } =>
           (result.kind = "raised" /\ exitCode = 1)
      /\ (script # "fritz_test2" \/ inputExists) => result.caught # "-"

\* new.py failed on a library error: nothing logged, a ValueError raised.
C6_Witness ==
    /\ pc = "exited" /\ script = "new" /\ result.caught = "LibraryError"
    /\ result.val = "ValueError" /\ log = << >>

(***************************************************************************)
(* C7.  As stated: in every script, when the input PDF exists, the         *)
(* library's calls succeed and the output path is given and can be         *)
(* written, convert_pdf_to_html returns without raising and the output     *)
(* file holds the HTML document with the extracted text in it.             *)
(***************************************************************************)
C7_PipelineRunsToItsEnd ==
    (Ended /\ inputExists /\ outPath = "given" /\ result.caught \notin EnvironmentFaults) =>
      /\ result.kind = "returned"
      /\ result.caught = "-"
      /\ outFile.exists /\ outFile.data = html /\ html # << >>
      /\ \A k \in 1..Len(pdf) : HoldsText(outFile.data, pdf[k])

(***************************************************************************)
(* C8.  As stated: in every script that writes an output file, a           *)
(* directory of the output path that is missing when the conversion        *)
(* starts is created before the write, so the write never fails for the    *)
(* want of it.                                                             *)
(***************************************************************************)
C8_OutputDirectoryCreated ==
    (Ended /\ inputExists /\ outPath = "given") =>
      /\ result.caught # "NoSuchDirectory"
      /\ result.caught = "-" => outDirExists

(***************************************************************************)
(* C9.  As stated: every text the script itself puts into the output is    *)
(* HTML-escaped there: no span of PDFToHTMLConverter and no <pre> of       *)
(* pdfplumber_test.py holds a raw &, <, >, " or ', and what it holds is    *)
(* the escaped text of the page.                                           *)
(***************************************************************************)
C9_TextEscaped ==
    /\ (IsClass /\ Converted) =>
         LET d == outFile.data
             spans == AtomsIn(d, 1, Len(d), "<span")
             texts == Flatten([k \in 1..Len(pdf) |-> SuppliedSpanTexts(pdf[k])])
         IN  /\ Len(spans) = Len(texts)
             /\ \A j \in 1..Len(spans) :
                  /\ NoRawSpecial(ElementContent(d, spans[j], "</span>"))
                  /\ ElementContent(d, spans[j], "</span>") = HtmlEscape(texts[j])
    /\ (script = "pdfplumber_test" /\ Converted) =>
         LET pres == FilePres(outFile.data)
         IN  /\ Len(pres) = Len(NonEmptyPageTexts)
             /\ \A j \in 1..Len(pres) :
                  /\ NoRawSpecial(pres[j])
                  /\ pres[j] = HtmlEscape(NonEmptyPageTexts[j])

(***************************************************************************)
(* C10.  As stated: in PDFToHTMLConverter every image of the PDF whose     *)
(* extraction succeeds has exactly one <img> tag in the whole document,    *)
(* whose base64 payload decodes to the encoded bytes of the image and      *)
(* whose width and height are those of the image.                          *)
(***************************************************************************)
C10_Original_OneImgPerImage ==
    (IsClass /\ Converted) =>
      LET d == outFile.data
      IN  \A x \in Xrefs :
            (/\ \E k \in 1..Len(pdf) : \E j \in 1..Len(pdf[k].images) : pdf[k].images[j] = x
             /\ ~ImageRaises(x)) =>
              LET tags == { i \in 1..Len(d) :
                              /\ d[i] = "<img"
                              /\ B64Decode(ImgPayload(d, i))
                                   \in { ImageStore(x).png, ImageStore(x).jpeg } }
              IN  /\ Cardinality(tags) = 1
                  /\ \A i \in tags :
                       /\ AttrValue(d, i, " width=\"") = << Str(ImageStore(x).width) >>
                       /\ AttrValue(d, i, " height=\"") = << Str(ImageStore(x).height) >>

(***************************************************************************)
(* C10, amended.  In PDFToHTMLConverter every entry of a page's image      *)
(* list whose extraction succeeds has exactly one <img> tag in the         *)
(* container of that page, in the order of the list, and the document      *)
(* holds no other <img>: an image used by k pages has k tags.  The src of  *)
(* the tag is a base64 data URI of type png or jpeg whose payload decodes  *)
(* to the bytes the image was encoded to in that format, and its width     *)
(* and height are the pixel width and height of the image.                 *)
(***************************************************************************)
C10_OneImgPerImageOfAPage ==
    (IsClass /\ Converted) =>
      LET d == outFile.data
          starts == PageStarts(d, DivPdfPage)
      IN  /\ Len(starts) = Len(pdf)
          /\ Len(AtomsIn(d, 1, Len(d), "<img"))
               = Len(Flatten([k \in 1..Len(pdf) |-> GoodImages(pdf[k])]))
          /\ \A k \in 1..Len(starts) :
               LET imgs == AtomsIn(d, starts[k], PageEnd(d, starts, k), "<img")
                   good == GoodImages(pdf[k])
               IN  /\ Len(imgs) = Len(good)
                   /\ \A j \in 1..Len(imgs) :
                        LET pix == ImageStore(pdf[k].images[good[j] + 1])
                            fmt == ImgFormat(d, imgs[j])
                            src == AttrValue(d, imgs[j], " src=\"")
                        IN  /\ SubSeq(src, 1, 3) = << "data:image/", fmt, ";base64," >>
                            /\ fmt \in { "png", "jpeg" }
                            /\ fmt = "jpeg" <=> pix.n - pix.alpha >= 4
                            /\ B64Decode(SubSeq(src, 4, Len(src)))
                                 = (IF fmt = "png" THEN pix.png ELSE pix.jpeg)
                            /\ B64Decode(ImgPayload(d, imgs[j])) = B64Decode(SubSeq(src, 4, Len(src)))
                            /\ AttrValue(d, imgs[j], " width=\"") = << Str(pix.width) >>
                            /\ AttrValue(d, imgs[j], " height=\"") = << Str(pix.height) >>

\* A written document of two pages that both use image 1, the second also
\* image 2, which is encoded as JPEG.
C10_Witness ==
    /\ IsClass /\ Converted /\ Len(pdf) = 2
    /\ pdf[1].images = << 1, 3 >> /\ pdf[2].images = << 2, 1 >>
    /\ Len(AtomsIn(outFile.data, 1, Len(outFile.data), "<img")) = 3

\* The spans of a page in the order the library supplied them.
SuppliedSpans(page) ==
    LET tb == SelectSeq(page.blocks, IsTextBlock)
    IN  Flatten([i \in 1..Len(tb) |->
            Flatten([j \in 1..Len(tb[i].lines) |-> tb[i].lines[j].spans])])

\* The start tags of the spans of the k-th page container of the file.
FileSpanTags(d, k) ==
    LET starts == PageStarts(d, DivPdfPage)
        spans == AtomsIn(d, starts[k], PageEnd(d, starts, k), "<span")
    IN  [j \in 1..Len(spans) |-> SubSeq(d, spans[j], NextAtom(d, spans[j], ">"))]

Has(tag, atom) == \E i \in 1..Len(tag) : tag[i] = atom

\* The words of the class attribute of a start tag.
ClassWords(tag) ==
    IF Has(tag, " class=\"")
      THEN LET v == AttrValue(tag, 0, " class=\"")
           IN  { v[i] : i \in 1..Len(v) } \ { " " }
      ELSE { }

UpperLetter(c) ==
    CASE c = "b" -> "B" [] c = "o" -> "O" [] c = "l" -> "L" [] c = "d" -> "D"
      [] c = "i" -> "I" [] c = "t" -> "T" [] c = "a" -> "A" [] c = "c" -> "C"

\* word (in lower case) occurs in name, the case of the letters set aside.
NameContains(word, name) ==
    \E i \in 0..(Len(name) - Len(word)) :
        \A j \in 1..Len(word) : name[i + j] \in { word[j], UpperLetter(word[j]) }

(***************************************************************************)
(* C11.  In PDFToHTMLConverter, the class list and inline style of every   *)
(* emitted span follow from its font name, size and color: class "bold"    *)
(* exactly when the font name contains "bold" in any case, class "italic"  *)
(* exactly when it contains "italic" in any case, a font-size declaration  *)
(* exactly when the size is not 12, a color declaration exactly when the   *)
(* packed color is not 0, and a style attribute exactly when one of the    *)
(* two declarations is there.  A span that lacks a key has the default     *)
(* ("", 12, 0) for it.                                                     *)
(***************************************************************************)
C11_SpanClassesAndStyles ==
    (IsClass /\ Converted) =>
      \A k \in 1..Len(pdf) :
        LET tags == FileSpanTags(outFile.data, k)
            spans == SuppliedSpans(pdf[k])
        IN  /\ Len(tags) = Len(spans)
            /\ \A j \in 1..Len(tags) :
                 LET name == Get(spans[j], "font", << >>)
                     size == Get(spans[j], "size", 12)
                     color == Get(spans[j], "color", 0)
                 IN  /\ "text-span" \in ClassWords(tags[j])
                     /\ "bold" \in ClassWords(tags[j])
                          <=> NameContains(<< "b","o","l","d" >>, name)
                     /\ "italic" \in ClassWords(tags[j])
                          <=> NameContains(<< "i","t","a","l","i","c" >>, name)
                     /\ Has(tags[j], "font-size: ") <=> size # 12
                     /\ Has(tags[j], "color: ") <=> color # 0
                     /\ Has(tags[j], " style=\"")
                          <=> (Has(tags[j], "font-size: ") \/ Has(tags[j], "color: "))

\* A written page with a span in upper-case bold and a colour, a span in
\* mixed-case italic with a size and a colour, and a span with all defaults.
C11_Witness ==
    /\ IsClass /\ Converted
    /\ \E k \in 1..Len(pdf) :
         LET spans == SuppliedSpans(pdf[k])
             tags == FileSpanTags(outFile.data, k)
         IN  /\ \E j \in 1..Len(spans) :
                  /\ "font" \in DOMAIN spans[j] /\ spans[j].font = FontItalic
                  /\ Has(tags[j], "font-size: ") /\ Has(tags[j], "color: ")
                  /\ ClassWords(tags[j]) = { "text-span", "italic" }
             /\ \E j \in 1..Len(spans) :
                  /\ "font" \in DOMAIN spans[j] /\ spans[j].font = FontPlain
                  /\ ~Has(tags[j], " style=\"")

\* The atoms that are white space between the elements of a document.
WhiteSpace == { "\n", Indent8, Indent12 }

\* A document without the white space between its elements.
Squeeze(d) == SelectSeq(d, LAMBDA a : a \notin WhiteSpace)

\* The scripts whose own code assembles the frame of the document; in
\* pdfminer_test.py and pdf2htmlEX.py the whole document is the library's.
AssemblesDocument == script \in { "fritz_test2", "fritz_test", "pdfplumber_test", "new", "poppdf_test" }

HtmlStartTags == { "<html>", "<html lang=\"en\">" }

(***************************************************************************)
(* C12.  As stated: in every script, the written HTML document starts      *)
(* with <!DOCTYPE html>, an <html> element with a <head> and an opening    *)
(* <body>, contains one block per page, each carrying a page-number        *)
(* marker (the id page-N of the container), and ends with the closing      *)
(* </body></html>.  White space between the elements is set aside, and     *)
(* the statement is taken for the scripts that assemble the document in    *)
(* their own code.                                                         *)
(***************************************************************************)
C12_DocumentStructure ==
    (AssemblesDocument /\ Converted) =>
      LET d == outFile.data
          w == Squeeze(d)
          starts == PageStarts(d, PageTagOf(script))
      IN  /\ Len(w) >= 6
          /\ w[1] = "<!DOCTYPE html>"
          /\ w[2] \in HtmlStartTags
          /\ w[3] = "<head>"
          /\ \E i \in 4..(Len(w) - 1) :
               /\ w[i] = "</head>" /\ w[i + 1] = "<body>"
               /\ \A j \in 1..Len(d), k \in 1..Len(starts) : d[j] = "<body>" => j < starts[k]
          /\ Len(starts) = Len(pdf)
          /\ \A k \in 1..Len(starts) :
               AttrValue(d, starts[k], " id=\"page-") = << Str(k) >>
          /\ w[Len(w) - 1] = "</body>" /\ w[Len(w)] = "</html>"

(***************************************************************************)
(* C13.  Running a conversion twice in a row on the same input PDF and     *)
(* the same output path, with a library that behaves the same in both      *)
(* runs (the second run ends with the result of the first), leaves the     *)
(* output file after the second run identical to the file after the        *)
(* first: what the output path held before and what the first run did      *)
(* make no difference.                                                     *)
(***************************************************************************)
C13_RerunIsIdempotent ==
    (first.done /\ pc = "exited" /\ result = first.result) => outFile = first.file

\* Both runs converted a PDF of two pages, and the second left the file of
\* the first.
C13_Witness ==
    /\ first.done /\ pc = "exited" /\ Converted
    /\ first.result = result /\ first.file = outFile
    /\ Len(outFile.data) > 4 /\ Len(pdf) = 2

(***************************************************************************)
(* C14.  As stated: in every script that writes its own output file, the   *)
(* file is opened for writing only after extraction and assembly of the    *)
(* complete HTML string have finished; so whenever a conversion ends in    *)
(* an error raised before the write itself, no output file has been        *)
(* created, and a file that was at the output path keeps its content: no   *)
(* empty or partial document is left behind.                               *)
(***************************************************************************)
C14_NoFileLeftOnError ==
    (Ended /\ Failed) => Untouched(outFile)

====
